---- MODULE Spec2Model ----
(***************************************************************************)
(* Fuel-voucher upload-link workflow of the food bank application          *)
(* (src/FoodBank_Testing.py): client registration, issuing of 48-hour      *)
(* upload links by send_sms_requests, and the /upload/<unique_link>        *)
(* handler with its keypad (manual entry) and smartphone (photo) paths.    *)
(*                                                                         *)
(* Text values are sequences of one-character strings so that strip(),     *)
(* rsplit(), lower() and secure_filename() are computed, not assumed.      *)
(* Times are whole hours.  `clock` is UTC; the server's local wall clock   *)
(* (datetime.now()) is clock + tz.  The SMS modes of the older             *)
(* foodbank_app.py (simulation, live, forced simulation) are modelled in   *)
(* their own section.                                                      *)
(***************************************************************************)
EXTENDS Integers, Sequences, FiniteSets, TLC

\* ---------------------------------------------------------------- bounds
MaxClients == 2
MaxRequests == 2
MaxOpenLinks == 1
MaxSelected == 2
MaxClock == 49

\* ------------------------------------------------------ program constants
EXPIRY_HOURS == 48
MIN_ID_DETAILS == 10
ALLOWED_EXTENSIONS == {<<"p","n","g">>, <<"j","p","g">>, <<"j","p","e","g">>, <<"g","i","f">>}

\* ------------------------------------------------------------ SQL NULLs
NullText == <<"NULL">>
NullTime == -1
NullStr == "NULL"

VARIABLES clients, requests, sms_logs, uploads, links_issued, clock, tz,
          config, sessions, response

vars == <<clients, requests, sms_logs, uploads, links_issued, clock, tz,
          config, sessions, response>>

\* ------------------------------------------------------- text primitives
\* str.strip() removes blanks and tabs alike.
WHITESPACE == {" ", "\t"}

RECURSIVE lstrip(_)
lstrip(s) == IF s # <<>> /\ Head(s) \in WHITESPACE THEN lstrip(Tail(s)) ELSE s

RECURSIVE rstrip(_)
rstrip(s) ==
    IF s # <<>> /\ s[Len(s)] \in WHITESPACE
    THEN rstrip(SubSeq(s, 1, Len(s) - 1))
    ELSE s

strip(s) == rstrip(lstrip(s))

RECURSIVE remove_chars(_, _)
remove_chars(s, cs) ==
    IF s = <<>> THEN <<>>
    ELSE IF Head(s) \in cs THEN remove_chars(Tail(s), cs)
    ELSE <<Head(s)>> \o remove_chars(Tail(s), cs)

startswith(s, c) == s # <<>> /\ Head(s) = c

UPPER == <<"A","B","C","D","E","F","G","H","I","J","K","L","M",
           "N","O","P","Q","R","S","T","U","V","W","X","Y","Z">>
LOWER == <<"a","b","c","d","e","f","g","h","i","j","k","l","m",
           "n","o","p","q","r","s","t","u","v","w","x","y","z">>
DIGITS == <<"0","1","2","3","4","5","6","7","8","9">>

lower_char(c) ==
    IF \E i \in 1..26 : UPPER[i] = c
    THEN LOWER[CHOOSE i \in 1..26 : UPPER[i] = c]
    ELSE c

lower(s) == [i \in 1..Len(s) |-> lower_char(s[i])]

RECURSIVE str_int(_)
str_int(n) ==
    IF n < 10 THEN <<DIGITS[n + 1]>>
    ELSE str_int(n \div 10) \o <<DIGITS[(n % 10) + 1]>>

FILENAME_CHARS ==
    {UPPER[i] : i \in 1..26} \cup {LOWER[i] : i \in 1..26}
        \cup {DIGITS[i] : i \in 1..10} \cup {"_", ".", "-"}

RECURSIVE keep_chars(_, _)
keep_chars(s, cs) ==
    IF s = <<>> THEN <<>>
    ELSE IF Head(s) \in cs THEN <<Head(s)>> \o keep_chars(Tail(s), cs)
    ELSE keep_chars(Tail(s), cs)

RECURSIVE strip_chars(_, _)
strip_chars(s, cs) ==
    IF s # <<>> /\ Head(s) \in cs THEN strip_chars(Tail(s), cs)
    ELSE IF s # <<>> /\ s[Len(s)] \in cs
    THEN strip_chars(SubSeq(s, 1, Len(s) - 1), cs)
    ELSE s

\* "_".join(s.split()): whitespace runs inside the text become one "_".
RECURSIVE join_split(_)
join_split(s) ==
    LET t == lstrip(s)
    IN IF t = <<>> THEN <<>>
       ELSE IF Head(s) \in WHITESPACE /\ t # s
       THEN <<"_">> \o join_split(t)
       ELSE <<Head(s)>> \o join_split(Tail(s))

secure_filename(filename) ==
    LET spaced == [i \in 1..Len(filename) |->
                      IF filename[i] = "/" THEN " " ELSE filename[i]]
    IN strip_chars(keep_chars(join_split(strip(spaced)), FILENAME_CHARS),
                   {".", "_"})

has_dot(filename) == \E i \in 1..Len(filename) : filename[i] = "."

\* filename.rsplit('.', 1)[1]
rsplit_ext(filename) ==
    LET last == CHOOSE i \in 1..Len(filename) :
                   /\ filename[i] = "."
                   /\ \A j \in (i + 1)..Len(filename) : filename[j] # "."
    IN SubSeq(filename, last + 1, Len(filename))

allowed_file(filename) ==
    has_dot(filename) /\ lower(rsplit_ext(filename)) \in ALLOWED_EXTENSIONS

\* ------------------------------------------------------------ time reads
utcnow == clock
now == clock + tz

\* ---------------------------------------------------------------- helpers
next_id(rows) ==
    IF rows = {} THEN 1
    ELSE 1 + (CHOOSE m \in {r.id : r \in rows} : \A r \in rows : r.id <= m)

format_phone_number(phone) ==
    LET p == remove_chars(strip(phone), {" ", "-"})
    IN IF startswith(p, "0") THEN <<"+","4","4">> \o Tail(p)
       ELSE IF ~startswith(p, "+") THEN <<"+","4","4">> \o p
       ELSE p

\* Variant: the same link every time.
generate_unique_link_constant(issued) == 1

\* uuid4(): a link that was never handed out before.
generate_unique_link(issued) == issued + 1

\* ----------------------------------------------------------------- rows
FuelRequest(id, client_id, unique_link, expires_at, created_at) ==
    [id |-> id, client_id |-> client_id, unique_link |-> unique_link,
     expires_at |-> expires_at, status |-> "pending",
     created_at |-> created_at,
     sms_sent |-> FALSE, sms_sent_at |-> NullTime, sms_sid |-> NullText,
     documents_uploaded |-> FALSE,
     meter_reading_filename |-> NullText,
     identity_photo_filename |-> NullText,
     phone_type_used |-> NullStr, submission_timestamp |-> NullTime,
     meter_reading_text |-> NullText, id_type |-> NullText,
     id_details |-> NullText, client_postcode |-> NullText,
     missing_documents_reason |-> NullText]

SMSLog(id, client_id, fuel_request_id, phone_number) ==
    [id |-> id, client_id |-> client_id,
     fuel_request_id |-> fuel_request_id, phone_number |-> phone_number,
     status |-> "pending", twilio_sid |-> NullText,
     error_message |-> NullText, sent_at |-> NullTime]

\* ------------------------------------------------------------- inputs
NameInputs == {<<"A","n","n">>, <<" ">>}
PhoneInputs == {<<"0","7","1">>, <<"+","4","4","7","1">>, <<"7"," ","2">>, <<>>}

Workers == {1, 2}
NoSession == [active |-> FALSE]

\* What the last handled HTTP request was answered with: the status code and
\* the flashed message (by a short key); for send_sms_requests also the two
\* counters and the submitted selection.
Response(op, method, status, flash) ==
    [op |-> op, method |-> method, status |-> status, flash |-> flash,
     sent_count |-> 0, failed_count |-> 0, selected |-> <<>>]

\* The module-level configuration: FoodBank_Testing.py has no Twilio client
\* (TWILIO_AVAILABLE is False), so it always starts in simulation mode with
\* the credentials cleared.
SimulationConfig ==
    [SIMULATION_MODE |-> TRUE, TWILIO_ACCOUNT_SID |-> NullStr,
     TWILIO_AUTH_TOKEN |-> NullStr, TWILIO_PHONE_NUMBER |-> NullStr]

Rows ==
    /\ clients = {}
    /\ requests = {}
    /\ sms_logs = {}
    /\ uploads = {}
    /\ links_issued = 0
    /\ clock = 0
    /\ tz \in {0, 1}
    /\ sessions = [w \in Workers |-> NoSession]
    /\ response = Response("none", "none", 0, "none")

Init ==
    /\ Rows
    /\ config = SimulationConfig

\* Variant: a sweep that marks pending requests expired as time passes.
Tick_sweep ==
    /\ \E d \in {EXPIRY_HOURS, EXPIRY_HOURS + 1} :
         /\ clock + d <= MaxClock
         /\ clock' = clock + d
         /\ requests' =
               {IF r.status = "pending" /\ r.expires_at < clock + d + tz
                THEN [r EXCEPT !.status = "expired"] ELSE r : r \in requests}
    /\ UNCHANGED <<clients, sms_logs, uploads, links_issued, tz,
                   config, sessions, response>>

\* Variant: a wall clock that may also be set back.
Tick_rewind ==
    /\ \E d \in {EXPIRY_HOURS, EXPIRY_HOURS + 1} :
         \/ clock + d <= MaxClock /\ clock' = clock + d
         \/ clock - d >= 0 /\ clock' = clock - d
    /\ UNCHANGED <<clients, requests, sms_logs, uploads, links_issued, tz,
                   config, sessions, response>>

\* The wall clock advances; nothing in the program sets it back.
Tick ==
    /\ \E d \in {EXPIRY_HOURS, EXPIRY_HOURS + 1} :
         /\ clock + d <= MaxClock
         /\ clock' = clock + d
    /\ UNCHANGED <<clients, requests, sms_logs, uploads, links_issued, tz,
                   config, sessions, response>>

\* POST /add_client
add_client(name, phone_number, gdpr_consent) ==
    /\ LET n == strip(name)
           p == strip(phone_number)
           phone == format_phone_number(p)
       IN IF n = <<>> \/ p = <<>>
          THEN /\ response' = Response("add_client", "POST", 302, "required")
               /\ UNCHANGED clients
          ELSE IF \E c \in clients : c.phone_number = phone
          THEN /\ response' = Response("add_client", "POST", 302, "exists")
               /\ UNCHANGED clients
          ELSE /\ clients' = clients \cup
                     {[id |-> next_id(clients), name |-> n,
                       phone_number |-> phone,
                       gdpr_consent |-> gdpr_consent]}
               /\ response' = Response("add_client", "POST", 302, "added")
    /\ UNCHANGED <<requests, sms_logs, uploads, links_issued, clock, tz,
                   config, sessions>>

\* What can go wrong inside send_sms_to_client once the log row is flushed:
\* nothing, an exception while the message is built (before the commit), or
\* an exception in the print() calls after the commit.
NotifierFaults == {"none", "message", "print"}

\* str(e) of the exception caught by send_sms_to_client.
ExceptionText == <<"e","r","r">>

\* Variant of send_sms_to_client whose except branch rolls the session back.
send_sms_to_client_rollback(client, fuel_request, db, fault) ==
    LET sid == <<"s","i","m","_">>
        log == [SMSLog(next_id(db.sms_logs), client.id, fuel_request.id,
                       client.phone_number)
                  EXCEPT !.status = "sent", !.sent_at = utcnow,
                         !.twilio_sid = sid]
        fr == [fuel_request EXCEPT !.sms_sent = TRUE,
                                   !.sms_sent_at = utcnow, !.sms_sid = sid]
    IN IF fault = "none"
       THEN [db EXCEPT !.requests = (@ \ {fuel_request}) \cup {fr},
                       !.sms_logs = @ \cup {log},
                       !.success = TRUE]
       ELSE [db EXCEPT !.requests = @ \ {fuel_request}, !.success = FALSE]

\* send_sms_to_client (SIMULATION_MODE or not, the message is simulated): one
\* SMSLog row marked sent and the request marked sms_sent; on an exception
\* the log row is marked failed with the exception's text, committed, and
\* False is returned.
send_sms_to_client(client, fuel_request, db, fault) ==
    LET sid == <<"s","i","m","_">>
        pending == SMSLog(next_id(db.sms_logs), client.id, fuel_request.id,
                          client.phone_number)
        log == [pending EXCEPT !.status = "sent", !.sent_at = utcnow,
                               !.twilio_sid = sid]
        fr == [fuel_request EXCEPT !.sms_sent = TRUE,
                                   !.sms_sent_at = utcnow, !.sms_sid = sid]
        failed(l) == [l EXCEPT !.status = "failed",
                               !.error_message = ExceptionText]
    IN IF fault = "message"
       THEN [db EXCEPT !.sms_logs = @ \cup {failed(pending)},
                       !.success = FALSE]
       ELSE IF fault = "print"
       THEN [db EXCEPT !.requests = (@ \ {fuel_request}) \cup {fr},
                       !.sms_logs = @ \cup {failed(log)},
                       !.success = FALSE]
       ELSE [db EXCEPT !.requests = (@ \ {fuel_request}) \cup {fr},
                       !.sms_logs = @ \cup {log},
                       !.success = TRUE]

\* Variant of the loop that does not look at gdpr_consent.
RECURSIVE issue_loop_any_consent(_, _, _)
issue_loop_any_consent(selected, faults, db) ==
    IF selected = <<>> THEN db
    ELSE LET client_id == Head(selected)
             found == {c \in clients : c.id = client_id}
         IN IF found = {}
            THEN issue_loop_any_consent(Tail(selected), Tail(faults),
                                        [db EXCEPT !.failed_count = @ + 1])
            ELSE LET client == CHOOSE c \in found : TRUE
                     fuel_request ==
                         FuelRequest(next_id(db.requests), client.id,
                                     generate_unique_link(db.links_issued),
                                     now + EXPIRY_HOURS, utcnow)
                     flushed == [db EXCEPT
                         !.requests = @ \cup {fuel_request},
                         !.links_issued = @ + 1]
                     sent == send_sms_to_client(client, fuel_request, flushed,
                                                Head(faults))
                 IN issue_loop_any_consent(Tail(selected), Tail(faults),
                        IF sent.success
                        THEN [sent EXCEPT !.sent_count = @ + 1]
                        ELSE [sent EXCEPT !.failed_count = @ + 1])

\* Variant of the loop that gives up at the first id it cannot serve.
RECURSIVE issue_loop_stop_at_failure(_, _, _)
issue_loop_stop_at_failure(selected, faults, db) ==
    IF selected = <<>> THEN db
    ELSE LET client_id == Head(selected)
             found == {c \in clients : c.id = client_id /\ c.gdpr_consent}
         IN IF found = {}
            THEN [db EXCEPT !.failed_count = @ + 1]
            ELSE LET client == CHOOSE c \in found : TRUE
                     fuel_request ==
                         FuelRequest(next_id(db.requests), client.id,
                                     generate_unique_link(db.links_issued),
                                     now + EXPIRY_HOURS, utcnow)
                     flushed == [db EXCEPT
                         !.requests = @ \cup {fuel_request},
                         !.links_issued = @ + 1]
                     sent == send_sms_to_client(client, fuel_request, flushed,
                                                Head(faults))
                 IN issue_loop_stop_at_failure(Tail(selected), Tail(faults),
                        IF sent.success
                        THEN [sent EXCEPT !.sent_count = @ + 1]
                        ELSE [sent EXCEPT !.failed_count = @ + 1])

\* The per-client loop of send_sms_requests over the selected ids.
RECURSIVE issue_loop(_, _, _)
issue_loop(selected, faults, db) ==
    IF selected = <<>> THEN db
    ELSE LET client_id == Head(selected)
             found == {c \in clients : c.id = client_id}
         IN IF found = {}
            THEN issue_loop(Tail(selected), Tail(faults),
                            [db EXCEPT !.failed_count = @ + 1])
            ELSE LET client == CHOOSE c \in found : TRUE
                 IN IF ~client.gdpr_consent
                    THEN issue_loop(Tail(selected), Tail(faults),
                                    [db EXCEPT !.failed_count = @ + 1])
                    ELSE LET fuel_request ==
                                 FuelRequest(next_id(db.requests), client.id,
                                             generate_unique_link(db.links_issued),
                                             now + EXPIRY_HOURS, utcnow)
                             flushed == [db EXCEPT
                                 !.requests = @ \cup {fuel_request},
                                 !.links_issued = @ + 1]
                             sent == send_sms_to_client(client, fuel_request,
                                                        flushed, Head(faults))
                         IN issue_loop(Tail(selected), Tail(faults),
                                IF sent.success
                                THEN [sent EXCEPT !.sent_count = @ + 1]
                                ELSE [sent EXCEPT !.failed_count = @ + 1])

SelectedInputs ==
    UNION {[1..n -> 1..(MaxClients + 1)] : n \in 0..MaxSelected}

\* One notifier outcome for each selected id.
FaultInputs(selected) == [1..Len(selected) -> NotifierFaults]
NoFaults(selected) == [i \in 1..Len(selected) |-> "none"]

\* POST /send_sms_requests: the rows and the response it ends with.
handle_send(selected_clients, faults) ==
    IF selected_clients = <<>>
    THEN [requests |-> requests, sms_logs |-> sms_logs,
          links_issued |-> links_issued,
          response |-> Response("send_sms_requests", "POST", 302,
                                "select_one")]
    ELSE LET db == issue_loop(selected_clients, faults,
                      [requests |-> requests, sms_logs |-> sms_logs,
                       links_issued |-> links_issued, success |-> FALSE,
                       sent_count |-> 0, failed_count |-> 0])
         IN [requests |-> db.requests, sms_logs |-> db.sms_logs,
             links_issued |-> db.links_issued,
             response |->
                 [Response("send_sms_requests", "POST", 302,
                           IF db.failed_count = 0
                           THEN "sent" ELSE "some_failed")
                    EXCEPT !.sent_count = db.sent_count,
                           !.failed_count = db.failed_count,
                           !.selected = selected_clients]]

send_sms_requests(selected_clients, faults) ==
    /\ LET done == handle_send(selected_clients, faults)
       IN /\ requests' = done.requests
          /\ sms_logs' = done.sms_logs
          /\ links_issued' = done.links_issued
          /\ response' = done.response
    /\ UNCHANGED <<clients, uploads, clock, tz, config, sessions>>

\* ------------------------------------------------------- submitted forms
File(filename) == [present |-> TRUE, filename |-> filename]
NoFile == [present |-> FALSE, filename |-> <<>>]

KeypadBase ==
    [phone_type |-> "keypad",
     client_name |-> <<"A","n","n">>,
     client_phone |-> <<"0","7","1">>,
     client_postcode |-> <<>>,
     meter_reading_text |-> <<"1","2","3">>,
     id_type |-> <<"p","a","s","s","p","o","r","t">>,
     other_id_type |-> <<>>,
     id_details |-> <<"A","n","n"," ","S","E","1","3"," ","X">>,
     cannot_upload_pictures |-> "",
     missing_documents_reason |-> <<>>,
     meter_reading |-> NoFile, identity_photo |-> NoFile]

KeypadOther ==
    [KeypadBase EXCEPT
        !.meter_reading_text = <<" ","9"," ">>,
        !.client_postcode = <<"S","E","1","3">>,
        !.id_type = <<"o","t","h","e","r">>,
        !.other_id_type = <<"b","a","n","k">>,
        !.id_details = <<" ","A","n","n"," ">>,
        !.cannot_upload_pictures = "on",
        !.missing_documents_reason = <<" ","l","o","s","t">>]

SmartphoneBase ==
    [KeypadBase EXCEPT
        !.phone_type = "smartphone",
        !.meter_reading = File(<<"m",".","j","p","g">>),
        !.identity_photo = File(<<"i"," ","d",".","J","P","G">>)]

FormInputs ==
    {KeypadBase, KeypadOther,
     [KeypadBase EXCEPT !.client_name = <<" ">>],
     [KeypadBase EXCEPT !.client_phone = <<>>],
     [KeypadBase EXCEPT !.meter_reading_text = <<" ", " ">>],
     [KeypadBase EXCEPT !.id_type = <<>>],
     [KeypadOther EXCEPT !.id_details = <<" ">>],
     [KeypadOther EXCEPT !.missing_documents_reason = <<" ">>],
     [KeypadBase EXCEPT !.missing_documents_reason = <<"l","o","s","t">>],
     [KeypadOther EXCEPT !.other_id_type = <<" ">>],
     SmartphoneBase,
     [SmartphoneBase EXCEPT !.identity_photo = File(<<"j","p","g">>)],
     [SmartphoneBase EXCEPT !.identity_photo = NoFile],
     [SmartphoneBase EXCEPT !.meter_reading = File(<<>>)],
     [SmartphoneBase EXCEPT !.meter_reading = File(<<"m",".","t","x","t">>)],
     [KeypadBase EXCEPT !.phone_type = "tablet"]}

LinkInputs == 1..(MaxOpenLinks + 1)


\* ------------------------------------------------- /upload/<unique_link>
\* The keypad fields as read from request.form (lines 1797-1809).
keypad_fields(form) ==
    LET id_type == strip(form.id_type)
        other_id_type == strip(form.other_id_type)
    IN [client_name |-> strip(form.client_name),
        client_phone |-> strip(form.client_phone),
        client_postcode |-> strip(form.client_postcode),
        meter_reading_text |-> strip(form.meter_reading_text),
        id_type |-> IF id_type = <<"o","t","h","e","r">> /\ other_id_type # <<>>
                    THEN <<"o","t","h","e","r",":"," ">> \o other_id_type
                    ELSE id_type,
        id_details |-> strip(form.id_details),
        cannot_upload_pictures |-> form.cannot_upload_pictures = "on",
        missing_documents_reason |-> strip(form.missing_documents_reason)]

\* Variant of the smartphone checks: the extension is not looked at.
smartphone_validate_any_extension(form) ==
    IF ~form.meter_reading.present \/ ~form.identity_photo.present
    THEN "both_files"
    ELSE IF form.meter_reading.filename = <<>>
            \/ form.identity_photo.filename = <<>>
    THEN "select_files"
    ELSE "photos_ok"

\* The checks of the smartphone branch (lines 1857-1875).
smartphone_validate(form) ==
    IF ~form.meter_reading.present \/ ~form.identity_photo.present
    THEN "both_files"
    ELSE IF form.meter_reading.filename = <<>>
            \/ form.identity_photo.filename = <<>>
    THEN "select_files"
    ELSE IF ~(allowed_file(form.meter_reading.filename)
              /\ allowed_file(form.identity_photo.filename))
    THEN "image_only"
    ELSE "photos_ok"

\* Variants of the keypad checks: id_details left out of the required
\* fields, and the reason for missing pictures not asked for.
upload_validate_no_details(form) ==
    IF form.phone_type = "keypad"
    THEN LET k == keypad_fields(form)
         IN IF \/ k.client_name = <<>>
               \/ k.client_phone = <<>>
               \/ k.meter_reading_text = <<>>
               \/ k.id_type = <<>>
            THEN "required_fields"
            ELSE IF k.cannot_upload_pictures /\ k.missing_documents_reason = <<>>
            THEN "reason_required"
            ELSE "manual_ok"
    ELSE IF form.phone_type = "smartphone" THEN smartphone_validate(form)
    ELSE "none"

upload_validate_no_reason(form) ==
    IF form.phone_type = "keypad"
    THEN LET k == keypad_fields(form)
         IN IF \/ k.client_name = <<>>
               \/ k.client_phone = <<>>
               \/ k.meter_reading_text = <<>>
               \/ k.id_type = <<>>
               \/ k.id_details = <<>>
            THEN "required_fields"
            ELSE "manual_ok"
    ELSE IF form.phone_type = "smartphone" THEN smartphone_validate(form)
    ELSE "none"

\* Variant that takes a form without a known phone_type for a keypad form.
upload_validate_default_keypad(form) ==
    IF form.phone_type = "smartphone" THEN smartphone_validate(form)
    ELSE "manual_ok"

\* The flash message the POST branch ends with; "manual_ok" and "photos_ok"
\* are the two branches that reach db.session.commit().
upload_validate(form) ==
    IF form.phone_type = "keypad"
    THEN LET k == keypad_fields(form)
         IN IF \/ k.client_name = <<>>
               \/ k.client_phone = <<>>
               \/ k.meter_reading_text = <<>>
               \/ k.id_type = <<>>
               \/ k.id_details = <<>>
            THEN "required_fields"
            ELSE IF k.cannot_upload_pictures /\ k.missing_documents_reason = <<>>
            THEN "reason_required"
            ELSE "manual_ok"
    ELSE IF form.phone_type = "smartphone" THEN smartphone_validate(form)
    ELSE "none"

manual_filename(fuel_request) ==
    <<"m","a","n","u","a","l","_","e","n","t","r","y","_">>
        \o str_int(fuel_request.id) \o <<".","t","x","t">>

\* Variant: the photo is stored under its original name alone.
meter_filename_unscoped(fuel_request, form) ==
    secure_filename(<<"m","e","t","e","r","_">> \o form.meter_reading.filename)

meter_filename(fuel_request, form) ==
    secure_filename(<<"m","e","t","e","r","_">> \o str_int(fuel_request.id)
                    \o <<"_">> \o form.meter_reading.filename)

identity_filename(fuel_request, form) ==
    secure_filename(<<"i","d","e","n","t","i","t","y","_">>
                    \o str_int(fuel_request.id)
                    \o <<"_">> \o form.identity_photo.filename)

\* Files the accepted branch writes into UPLOAD_FOLDER.
upload_files(fuel_request, form) ==
    IF form.phone_type = "keypad"
    THEN {manual_filename(fuel_request)}
    ELSE {meter_filename(fuel_request, form),
          identity_filename(fuel_request, form)}

\* Attribute assignments of the keypad branch on the loaded row.
keypad_assign(fuel_request, form) ==
    LET k == keypad_fields(form)
        set == [fuel_request EXCEPT
                   !.documents_uploaded = TRUE,
                   !.phone_type_used = "keypad",
                   !.submission_timestamp = utcnow,
                   !.status = "completed",
                   !.meter_reading_text = k.meter_reading_text,
                   !.id_type = k.id_type,
                   !.id_details = k.id_details,
                   !.client_postcode = k.client_postcode,
                   !.meter_reading_filename = manual_filename(fuel_request),
                   !.identity_photo_filename = manual_filename(fuel_request)]
    IN IF k.cannot_upload_pictures
       THEN [set EXCEPT !.missing_documents_reason = k.missing_documents_reason]
       ELSE set

\* Variant of the smartphone branch that leaves documents_uploaded alone.
smartphone_assign_status_only(fuel_request, form) ==
    [fuel_request EXCEPT
        !.phone_type_used = "smartphone",
        !.submission_timestamp = utcnow,
        !.status = "completed"]

\* Attribute assignments of the smartphone branch on the loaded row.
smartphone_assign(fuel_request, form) ==
    [fuel_request EXCEPT
        !.documents_uploaded = TRUE,
        !.phone_type_used = "smartphone",
        !.submission_timestamp = utcnow,
        !.status = "completed"]

upload_assign(fuel_request, form) ==
    IF form.phone_type = "keypad"
    THEN keypad_assign(fuel_request, form)
    ELSE smartphone_assign(fuel_request, form)

\* The unit of work of a request's session: the loaded row, and the columns
\* whose value differs from the loaded one (what the UPDATE will carry).
stage(fuel_request, form) ==
    LET assigned == upload_assign(fuel_request, form)
    IN [active |-> TRUE, id |-> fuel_request.id,
        dirty |-> {c \in DOMAIN assigned : assigned[c] # fuel_request[c]},
        values |-> assigned,
        flash |-> upload_validate(form)]

\* db.session.commit(): UPDATE fuel_request SET <dirty columns> WHERE id = ?
db_commit(rows, session) ==
    {IF r.id = session.id
     THEN [c \in DOMAIN r |->
              IF c \in session.dirty THEN session.values[c] ELSE r[c]]
     ELSE r : r \in rows}

UploadResponse(method, status, flash) ==
    Response("upload_documents", method, status, flash)

query_by_link(unique_link) == {r \in requests : r.unique_link = unique_link}

\* Variants of the expiry test: against the UTC clock, and inclusive.
is_expired_utc(fuel_request) == fuel_request.expires_at < utcnow

is_expired_inclusive(fuel_request) == fuel_request.expires_at <= now

is_expired(fuel_request) == fuel_request.expires_at < now

\* Variant of the handler that validates a POSTed form before it looks at
\* the expiry.
handle_upload_validate_first(method, unique_link, form) ==
    LET found == query_by_link(unique_link)
        same(resp) == [requests |-> requests, uploads |-> uploads,
                       response |-> resp]
    IN IF found = {}
       THEN same(UploadResponse(method, 404, "none"))
       ELSE LET fuel_request == CHOOSE r \in found : TRUE
                outcome == upload_validate(form)
            IN IF method = "POST"
                  /\ outcome \notin {"manual_ok", "photos_ok", "none"}
               THEN same(UploadResponse(method, 302, outcome))
               ELSE IF is_expired(fuel_request)
               THEN same(UploadResponse(method, 410, "none"))
               ELSE IF method = "POST" /\ outcome \in {"manual_ok", "photos_ok"}
               THEN [requests |-> db_commit(requests, stage(fuel_request, form)),
                     uploads |-> uploads \cup upload_files(fuel_request, form),
                     response |-> UploadResponse(method, 200, outcome)]
               ELSE same(UploadResponse(method, 200, "none"))

\* GET or POST /upload/<unique_link> handled without interruption: the
\* stored requests, the upload folder and the response it ends with.
handle_upload(method, unique_link, form) ==
    LET found == query_by_link(unique_link)
        same(resp) == [requests |-> requests, uploads |-> uploads,
                       response |-> resp]
    IN IF found = {}
       THEN same(UploadResponse(method, 404, "none"))
       ELSE LET fuel_request == CHOOSE r \in found : TRUE
                outcome == upload_validate(form)
            IN IF is_expired(fuel_request)
               THEN same(UploadResponse(method, 410, "none"))
               ELSE IF method = "POST" /\ outcome \in {"manual_ok", "photos_ok"}
               THEN [requests |-> db_commit(requests, stage(fuel_request, form)),
                     uploads |-> uploads \cup upload_files(fuel_request, form),
                     response |-> UploadResponse(method, 200, outcome)]
               ELSE IF method = "POST" /\ outcome # "none"
               THEN same(UploadResponse(method, 302, outcome))
               ELSE same(UploadResponse(method, 200, "none"))

upload_documents(method, unique_link, form) ==
    /\ LET done == handle_upload(method, unique_link, form)
       IN /\ requests' = done.requests
          /\ uploads' = done.uploads
          /\ response' = done.response
    /\ UNCHANGED <<clients, sms_logs, links_issued, clock, tz, config,
                   sessions>>

\* ------------------------------------------------ failing file writes
\* The file write of an accepted submission that raises: open() of the manual
\* entry file, f.write() into it once it is created, the save of the meter
\* image, or the save of the identity image after the meter image is saved.
StorageFaults ==
    {"none", "manual_open", "manual_write", "meter_save", "identity_save"}

write_fails(form, fault) ==
    \/ form.phone_type = "keypad" /\ fault \in {"manual_open", "manual_write"}
    \/ form.phone_type = "smartphone" /\ fault \in {"meter_save", "identity_save"}

\* The files that exist once the write has raised.
files_left(fuel_request, form, fault) ==
    IF fault = "manual_write" THEN {manual_filename(fuel_request)}
    ELSE IF fault = "identity_save" THEN {meter_filename(fuel_request, form)}
    ELSE {}

\* The handler when a write raises: the except clause flashes the error and
\* the form is rendered again; nothing is committed, and the request's
\* session, with the attributes assigned so far, is discarded with the
\* request context.
handle_upload_fault(method, unique_link, form, fault) ==
    LET done == handle_upload(method, unique_link, form)
    IN IF done.response.flash \in {"manual_ok", "photos_ok"}
          /\ write_fails(form, fault)
       THEN LET fuel_request == CHOOSE r \in query_by_link(unique_link) : TRUE
            IN [requests |-> requests,
                uploads |-> uploads \cup files_left(fuel_request, form, fault),
                response |-> UploadResponse(method, 200, "error")]
       ELSE done

upload_documents_fault(method, unique_link, form, fault) ==
    /\ LET done == handle_upload_fault(method, unique_link, form, fault)
       IN /\ requests' = done.requests
          /\ uploads' = done.uploads
          /\ response' = done.response
    /\ UNCHANGED <<clients, sms_logs, links_issued, clock, tz, config,
                   sessions>>

\* ------------------------------------- the two steps of a concurrent POST
\* A worker's POST up to (not including) db.session.commit(): the row is
\* loaded, expiry and the form are checked, the attributes are assigned in
\* the worker's own session and the files are written.
upload_begin(w, unique_link, form) ==
    /\ ~sessions[w].active
    /\ LET found == query_by_link(unique_link)
       IN IF found = {}
          THEN /\ response' = UploadResponse("POST", 404, "none")
               /\ UNCHANGED <<sessions, uploads>>
          ELSE LET fuel_request == CHOOSE r \in found : TRUE
                   outcome == upload_validate(form)
               IN IF is_expired(fuel_request)
                  THEN /\ response' = UploadResponse("POST", 410, "none")
                       /\ UNCHANGED <<sessions, uploads>>
                  ELSE IF outcome \in {"manual_ok", "photos_ok"}
                  THEN /\ uploads' = uploads \cup upload_files(fuel_request, form)
                       /\ sessions' = [sessions EXCEPT
                                          ![w] = stage(fuel_request, form)]
                       /\ UNCHANGED response
                  ELSE IF outcome # "none"
                  THEN /\ response' = UploadResponse("POST", 302, outcome)
                       /\ UNCHANGED <<sessions, uploads>>
                  ELSE /\ response' = UploadResponse("POST", 200, "none")
                       /\ UNCHANGED <<sessions, uploads>>
    /\ UNCHANGED <<clients, requests, sms_logs, links_issued, clock, tz,
                   config>>

\* The worker's db.session.commit() and the success page.
upload_commit(w) ==
    /\ sessions[w].active
    /\ requests' = db_commit(requests, sessions[w])
    /\ response' = UploadResponse("POST", 200, sessions[w].flash)
    /\ sessions' = [sessions EXCEPT ![w] = NoSession]
    /\ UNCHANGED <<clients, sms_logs, uploads, links_issued, clock, tz,
                   config>>

\* ---------------------------------------------------- specifications
\* Registration and issuing, with every spelling of the phone number and
\* every selection of client ids.
NextIssue ==
    \/ Tick
    \/ \E n \in NameInputs, p \in PhoneInputs, g \in BOOLEAN :
          /\ Cardinality(clients) < MaxClients
          /\ add_client(n, p, g)
    \/ \E sel \in SelectedInputs :
          /\ Cardinality(requests) + Len(sel) <= MaxRequests
          /\ send_sms_requests(sel, NoFaults(sel))

SpecIssue == Init /\ [][NextIssue]_vars

\* The upload workflow: one registered client, links issued one at a time,
\* every handler running to completion before the next one starts.
OneClientPhones == {<<"0","7","1">>, <<"+","4","4","7","1">>, <<>>}
OneSelected == {<<>>, <<1>>, <<2>>}
EmptyForm == [KeypadBase EXCEPT !.phone_type = ""]

Register ==
    \E n \in NameInputs, p \in OneClientPhones, g \in BOOLEAN :
        /\ Cardinality(clients) < MaxClients
        /\ add_client(n, p, g)

Issue ==
    \E sel \in OneSelected :
        /\ Cardinality(requests) + Len(sel) <= MaxOpenLinks
        /\ send_sms_requests(sel, NoFaults(sel))

\* The forms that are actually submitted: one accepted form of each path and
\* one form for each way of being refused.
SubmittedForms ==
    {KeypadOther,
     SmartphoneBase,
     [KeypadBase EXCEPT !.client_name = <<" ">>],
     [KeypadOther EXCEPT !.missing_documents_reason = <<" ">>],
     [SmartphoneBase EXCEPT !.identity_photo = NoFile],
     [SmartphoneBase EXCEPT !.meter_reading = File(<<>>)],
     [SmartphoneBase EXCEPT !.meter_reading = File(<<"m",".","t","x","t">>)],
     [KeypadBase EXCEPT !.phone_type = "tablet"]}

Next ==
    \/ Tick
    \/ Register
    \/ Issue
    \/ \E l \in LinkInputs : upload_documents("GET", l, EmptyForm)
    \/ \E l \in LinkInputs, f \in SubmittedForms :
          upload_documents("POST", l, f)

Spec == Init /\ [][Next]_vars

\* The same workflow with two workers whose POSTs interleave between the
\* loading of the row and the commit.
ConcurrentForms ==
    {KeypadBase, SmartphoneBase, [KeypadBase EXCEPT !.client_name = <<" ">>]}

NextConc ==
    \/ Tick
    \/ Register
    \/ Issue
    \/ \E w \in Workers, l \in LinkInputs, f \in ConcurrentForms :
          upload_begin(w, l, f)
    \/ \E w \in Workers : upload_commit(w)

SpecConc == Init /\ [][NextConc]_vars

\* ------------------------------------------------- client administration
\* Variant of edit_client that also drops the requests of the edited client.
edit_client_purge(client_id, name, phone_number, gdpr_consent) ==
    /\ \E c \in clients : c.id = client_id
    /\ clients' = {[c EXCEPT !.gdpr_consent = gdpr_consent] : c \in clients}
    /\ requests' = {r \in requests : r.client_id # client_id}
    /\ response' = Response("edit_client", "POST", 302, "updated")
    /\ UNCHANGED <<sms_logs, uploads, links_issued, clock, tz, config,
                   sessions>>

\* POST /edit_client/<client_id>
edit_client(client_id, name, phone_number, gdpr_consent) ==
    /\ LET found == {c \in clients : c.id = client_id}
           n == strip(name)
           p == strip(phone_number)
           phone == format_phone_number(p)
       IN IF found = {}
          THEN /\ response' = Response("edit_client", "POST", 404, "none")
               /\ UNCHANGED clients
          ELSE IF n = <<>> \/ p = <<>>
          THEN /\ response' = Response("edit_client", "POST", 302, "required")
               /\ UNCHANGED clients
          ELSE IF \E c \in clients : c.phone_number = phone /\ c.id # client_id
          THEN /\ response' = Response("edit_client", "POST", 302, "exists")
               /\ UNCHANGED clients
          ELSE /\ clients' = (clients \ found) \cup
                     {[id |-> client_id, name |-> n, phone_number |-> phone,
                       gdpr_consent |-> gdpr_consent]}
               /\ response' = Response("edit_client", "POST", 302, "updated")
    /\ UNCHANGED <<requests, sms_logs, uploads, links_issued, clock, tz,
                   config, sessions>>

\* Variant of delete_client that leaves the SMS log of the client behind.
delete_client_keep_logs(client_id) ==
    /\ IF \E c \in clients : c.id = client_id
       THEN /\ requests' = {r \in requests : r.client_id # client_id}
            /\ clients' = {c \in clients : c.id # client_id}
            /\ response' = Response("delete_client", "GET", 302, "deleted")
            /\ UNCHANGED sms_logs
       ELSE /\ response' = Response("delete_client", "GET", 302, "error")
            /\ UNCHANGED <<clients, requests, sms_logs>>
    /\ UNCHANGED <<uploads, links_issued, clock, tz, config, sessions>>

\* GET /delete_client/<client_id>: abort(404) is raised inside the try block
\* and caught by its except clause, so an unknown id also ends in the
\* redirect.
delete_client(client_id) ==
    /\ IF \E c \in clients : c.id = client_id
       THEN /\ requests' = {r \in requests : r.client_id # client_id}
            /\ sms_logs' = {g \in sms_logs : g.client_id # client_id}
            /\ clients' = {c \in clients : c.id # client_id}
            /\ response' = Response("delete_client", "GET", 302, "deleted")
       ELSE /\ response' = Response("delete_client", "GET", 302, "error")
            /\ UNCHANGED <<clients, requests, sms_logs>>
    /\ UNCHANGED <<uploads, links_issued, clock, tz, config, sessions>>

\* GET /cleanup_database: phone numbers are unique, so there is no duplicate
\* to remove; every client without consent is given consent.
cleanup_database ==
    /\ clients' = {[c EXCEPT !.gdpr_consent = TRUE] : c \in clients}
    /\ response' = Response("cleanup_database", "GET", 302, "cleaned")
    /\ UNCHANGED <<requests, sms_logs, uploads, links_issued, clock, tz,
                   config, sessions>>

\* Every operation that touches clients or requests, one handler at a time,
\* within the lifetime of the links.
AdminPhones == {<<"0","7","1">>, <<"7"," ","2">>, <<>>}

RegisterAdmin ==
    \E p \in AdminPhones, g \in BOOLEAN :
        /\ Cardinality(clients) < MaxClients
        /\ add_client(<<"A","n","n">>, p, g)

NextAdmin ==
    \/ RegisterAdmin
    \/ \E id \in 1..MaxClients, p \in {<<"0","7","1">>, <<>>},
          g \in BOOLEAN : edit_client(id, <<"A","n","n">>, p, g)
    \/ \E id \in 1..MaxClients : delete_client(id)
    \/ cleanup_database
    \/ \E sel \in OneSelected :
          /\ Cardinality(requests) + Len(sel) <= MaxRequests
          /\ links_issued + Len(sel) <= MaxRequests
          /\ send_sms_requests(sel, NoFaults(sel))
    \/ \E l \in 1..MaxRequests : upload_documents("POST", l, KeypadBase)

SpecAdmin == Init /\ [][NextAdmin]_vars

\* POST /quick_add_client: the dashboard form, the same steps as add_client.
quick_add_client(name, phone_number, gdpr_consent) ==
    /\ LET n == strip(name)
           p == strip(phone_number)
           phone == format_phone_number(p)
       IN IF n = <<>> \/ p = <<>>
          THEN /\ response' =
                     Response("quick_add_client", "POST", 302, "required")
               /\ UNCHANGED clients
          ELSE IF \E c \in clients : c.phone_number = phone
          THEN /\ response' =
                     Response("quick_add_client", "POST", 302, "exists")
               /\ UNCHANGED clients
          ELSE /\ clients' = clients \cup
                     {[id |-> next_id(clients), name |-> n,
                       phone_number |-> phone,
                       gdpr_consent |-> gdpr_consent]}
               /\ response' =
                     Response("quick_add_client", "POST", 302, "added")
    /\ UNCHANGED <<requests, sms_logs, uploads, links_issued, clock, tz,
                   config, sessions>>

\* The client register: the three handlers that write a phone number, fed
\* with several spellings of two numbers.
SpelledPhones ==
    {<<"0","7">>, <<"+","4","4","7">>, <<"0"," ","7">>, <<"0","7","\t","-">>,
     <<"0","8">>, <<>>}

NextClients ==
    \/ \E n \in NameInputs, p \in SpelledPhones, g \in BOOLEAN :
          /\ Cardinality(clients) < MaxClients
          /\ add_client(n, p, g)
    \/ \E n \in NameInputs, p \in SpelledPhones, g \in BOOLEAN :
          /\ Cardinality(clients) < MaxClients
          /\ quick_add_client(n, p, g)
    \/ \E id \in 1..(MaxClients + 1), n \in NameInputs, p \in SpelledPhones,
          g \in BOOLEAN : edit_client(id, n, p, g)

SpecClients == Init /\ [][NextClients]_vars

\* Several requests alive at once and submitted on either path, so that
\* their files lie side by side in UPLOAD_FOLDER.
NextFiles ==
    \/ /\ Cardinality(clients) < MaxClients
       /\ add_client(<<"A","n","n">>, <<"0","7","1">>, TRUE)
    \/ \E sel \in OneSelected :
          /\ links_issued + Len(sel) <= MaxRequests
          /\ send_sms_requests(sel, NoFaults(sel))
    \/ \E l \in 1..MaxRequests, f \in {KeypadBase, SmartphoneBase} :
          upload_documents("POST", l, f)

SpecFiles == Init /\ [][NextFiles]_vars

\* Issuing with a notifier that may fail for any of the selected clients.
NotifySelected == {<<>>, <<1>>, <<2>>, <<1, 1>>, <<1, 2>>, <<2, 1>>, <<3, 1>>}

IssueNotify ==
    \E sel \in NotifySelected :
        \E faults \in FaultInputs(sel) :
            /\ Cardinality(requests) + Len(sel) <= MaxRequests
            /\ send_sms_requests(sel, faults)

NextNotify ==
    \/ Tick
    \/ Register
    \/ IssueNotify

SpecNotify == Init /\ [][NextNotify]_vars

\* ------------------------------------------- foodbank_app.py: SMS modes
\* The credentials found in the environment at start-up; "AC", "token" and
\* "+44" stand for values that pass the tests of lines 73-79.
EnvInputs ==
    {[TWILIO_ACCOUNT_SID |-> sid, TWILIO_AUTH_TOKEN |-> "token",
      TWILIO_PHONE_NUMBER |-> "+44"] : sid \in {"AC", "your_", NullStr}}

\* Module start-up: live mode only with a complete, plausible set of
\* credentials; otherwise simulation mode and the credentials are cleared.
load_config(env) ==
    IF /\ env.TWILIO_ACCOUNT_SID = "AC"
       /\ env.TWILIO_AUTH_TOKEN = "token"
       /\ env.TWILIO_PHONE_NUMBER = "+44"
    THEN [SIMULATION_MODE |-> FALSE,
          TWILIO_ACCOUNT_SID |-> env.TWILIO_ACCOUNT_SID,
          TWILIO_AUTH_TOKEN |-> env.TWILIO_AUTH_TOKEN,
          TWILIO_PHONE_NUMBER |-> env.TWILIO_PHONE_NUMBER]
    ELSE SimulationConfig

InitApp ==
    /\ Rows
    /\ config \in {load_config(env) : env \in EnvInputs}

\* What the Twilio client does when it is called.
TwilioOutcomes == {"delivered", "raises"}

SimulatedSid == <<"s","i","m","_">>
MessageSid == <<"S","M">>
TwilioFailed ==
    <<"T","w","i","l","i","o"," ","f","a","i","l","e","d",","," ",
      "s","i","m","u","l","a","t","e","d",":"," ">>

\* Without credentials the client cannot be built or the message has no
\* sender: the call raises whatever the provider would have answered.
twilio_raises(outcome) ==
    \/ outcome = "raises"
    \/ config.TWILIO_ACCOUNT_SID = NullStr
    \/ config.TWILIO_AUTH_TOKEN = NullStr
    \/ config.TWILIO_PHONE_NUMBER = NullStr

\* Variant of the notifier that reports a failed Twilio call as a failure.
app_send_sms_to_client_strict(client, fuel_request, db, outcome) ==
    LET pending == SMSLog(next_id(db.sms_logs), client.id, fuel_request.id,
                          client.phone_number)
        sent(sid) == [pending EXCEPT !.status = "sent", !.sent_at = utcnow,
                                     !.twilio_sid = sid]
        fr(sid) == [fuel_request EXCEPT !.sms_sent = TRUE,
                                        !.sms_sent_at = utcnow,
                                        !.sms_sid = sid]
    IN IF config.SIMULATION_MODE \/ ~twilio_raises(outcome)
       THEN [db EXCEPT
                !.requests = (@ \ {fuel_request}) \cup {fr(SimulatedSid)},
                !.sms_logs = @ \cup {sent(SimulatedSid)},
                !.success = TRUE]
       ELSE [db EXCEPT
                !.sms_logs = @ \cup
                    {[pending EXCEPT !.status = "failed",
                                     !.error_message = ExceptionText]},
                !.twilio_calls = @ + 1,
                !.success = FALSE]

\* send_sms_to_client of foodbank_app.py: the simulation branch in simulation
\* mode; otherwise the Twilio call, and if that raises the fall-back that
\* records a simulated success together with the failure text.
app_send_sms_to_client(client, fuel_request, db, outcome) ==
    LET pending == SMSLog(next_id(db.sms_logs), client.id, fuel_request.id,
                          client.phone_number)
        sent(sid) == [pending EXCEPT !.status = "sent", !.sent_at = utcnow,
                                     !.twilio_sid = sid]
        fr(sid) == [fuel_request EXCEPT !.sms_sent = TRUE,
                                        !.sms_sent_at = utcnow,
                                        !.sms_sid = sid]
    IN IF config.SIMULATION_MODE
       THEN [db EXCEPT
                !.requests = (@ \ {fuel_request}) \cup {fr(SimulatedSid)},
                !.sms_logs = @ \cup {sent(SimulatedSid)},
                !.success = TRUE]
       ELSE IF ~twilio_raises(outcome)
       THEN [db EXCEPT
                !.requests = (@ \ {fuel_request}) \cup {fr(MessageSid)},
                !.sms_logs = @ \cup {sent(MessageSid)},
                !.twilio_calls = @ + 1,
                !.success = TRUE]
       ELSE [db EXCEPT
                !.requests = (@ \ {fuel_request}) \cup {fr(SimulatedSid)},
                !.sms_logs = @ \cup
                    {[sent(SimulatedSid) EXCEPT
                         !.error_message = TwilioFailed \o ExceptionText]},
                !.twilio_calls = @ + 1,
                !.success = TRUE]

\* The per-client loop of foodbank_app.py's send_sms_requests; the link
\* expires 48 hours after utcnow().
RECURSIVE app_issue_loop(_, _, _)
app_issue_loop(selected, outcomes, db) ==
    IF selected = <<>> THEN db
    ELSE LET client_id == Head(selected)
             found == {c \in clients : c.id = client_id}
         IN IF found = {}
            THEN app_issue_loop(Tail(selected), Tail(outcomes),
                                [db EXCEPT !.failed_count = @ + 1])
            ELSE LET client == CHOOSE c \in found : TRUE
                 IN IF ~client.gdpr_consent
                    THEN app_issue_loop(Tail(selected), Tail(outcomes),
                                        [db EXCEPT !.failed_count = @ + 1])
                    ELSE LET fuel_request ==
                                 FuelRequest(next_id(db.requests), client.id,
                                     generate_unique_link(db.links_issued),
                                     utcnow + EXPIRY_HOURS, utcnow)
                             flushed == [db EXCEPT
                                 !.requests = @ \cup {fuel_request},
                                 !.links_issued = @ + 1]
                             sent == app_send_sms_to_client(
                                         client, fuel_request, flushed,
                                         Head(outcomes))
                         IN app_issue_loop(Tail(selected), Tail(outcomes),
                                IF sent.success
                                THEN [sent EXCEPT !.sent_count = @ + 1]
                                ELSE [sent EXCEPT !.failed_count = @ + 1])

OutcomeInputs(selected) == [1..Len(selected) -> TwilioOutcomes]

\* POST /send_sms_requests of foodbank_app.py: the rows and the response it
\* ends with, and the number of calls made to Twilio.
app_handle_send(selected_clients, outcomes) ==
    IF selected_clients = <<>>
    THEN [requests |-> requests, sms_logs |-> sms_logs,
          links_issued |-> links_issued, twilio_calls |-> 0,
          response |-> Response("send_sms_requests", "POST", 302,
                                "select_one")]
    ELSE LET db == app_issue_loop(selected_clients, outcomes,
                      [requests |-> requests, sms_logs |-> sms_logs,
                       links_issued |-> links_issued, success |-> FALSE,
                       twilio_calls |-> 0,
                       sent_count |-> 0, failed_count |-> 0])
         IN [requests |-> db.requests, sms_logs |-> db.sms_logs,
             links_issued |-> db.links_issued,
             twilio_calls |-> db.twilio_calls,
             response |->
                 [Response("send_sms_requests", "POST", 302,
                           IF db.failed_count = 0
                           THEN "sent" ELSE "some_failed")
                    EXCEPT !.sent_count = db.sent_count,
                           !.failed_count = db.failed_count,
                           !.selected = selected_clients]]

app_send_sms_requests(selected_clients, outcomes) ==
    /\ LET done == app_handle_send(selected_clients, outcomes)
       IN /\ requests' = done.requests
          /\ sms_logs' = done.sms_logs
          /\ links_issued' = done.links_issued
          /\ response' = done.response
    /\ UNCHANGED <<clients, uploads, clock, tz, config, sessions>>

\* GET /debug/force_simulation: the three credentials are set to None;
\* SIMULATION_MODE is not among the names declared global and is not
\* assigned.
force_simulation_mode ==
    /\ config' = [config EXCEPT !.TWILIO_ACCOUNT_SID = NullStr,
                                !.TWILIO_AUTH_TOKEN = NullStr,
                                !.TWILIO_PHONE_NUMBER = NullStr]
    /\ response' = Response("force_simulation_mode", "GET", 302, "forced")
    /\ UNCHANGED <<clients, requests, sms_logs, uploads, links_issued, clock,
                   tz, sessions>>

\* GET /debug/sms_status: the twilio_configured field of the JSON answer.
twilio_configured == ~config.SIMULATION_MODE

debug_sms_status ==
    /\ response' = Response("debug_sms_status", "GET", 200,
                            IF twilio_configured THEN "configured"
                            ELSE "simulation")
    /\ UNCHANGED <<clients, requests, sms_logs, uploads, links_issued, clock,
                   tz, config, sessions>>

NextApp ==
    \/ Register
    \/ \E sel \in NotifySelected :
          \E outcomes \in OutcomeInputs(sel) :
              /\ Cardinality(requests) + Len(sel) <= MaxRequests
              /\ app_send_sms_requests(sel, outcomes)
    \/ force_simulation_mode
    \/ debug_sms_status

SpecApp == InitApp /\ [][NextApp]_vars

\* The upload workflow on a disk whose writes may fail.
NextStorage ==
    \/ Tick
    \/ Register
    \/ Issue
    \/ \E l \in LinkInputs, f \in ConcurrentForms, fault \in StorageFaults :
          upload_documents_fault("POST", l, f, fault)

SpecStorage == Init /\ [][NextStorage]_vars

\* ================================================================ claims
\* The claims about one handler are stated over every reachable state and
\* every input: what the handler does there (handle_upload, handle_send).
blank(s) == \A i \in 1..Len(s) : s[i] \in WHITESPACE

row(unique_link) == CHOOSE r \in requests : r.unique_link = unique_link

open_link(unique_link) ==
    \E r \in requests : r.unique_link = unique_link /\ ~(r.expires_at < now)

accepted(resp) == resp.status = 200 /\ resp.flash \in {"manual_ok", "photos_ok"}

rejected(resp) == resp.status = 302 /\ resp.flash \notin {"manual_ok", "photos_ok"}

unchanged(done) == done.requests = requests /\ done.uploads = uploads

\* C1: once a submission has completed the request, every later POST on the
\* same link is refused and the stored request stays as the first
\* submission left it.
C1_ResubmissionRejected ==
    \A l \in LinkInputs, f \in FormInputs :
        (\E r \in requests : r.unique_link = l /\ r.status = "completed")
        => LET done == handle_upload("POST", l, f)
           IN done.requests = requests /\ ~accepted(done.response)

\* C2: of two interleaved POSTs on one pending link exactly one performs the
\* pending -> completed transition: no commit is accepted on a row that
\* another submission has already completed.
C2_ExactlyOneCompletion ==
    [][\A w \in Workers :
          upload_commit(w)
          => \E r \in requests : r.id = sessions[w].id /\ r.status = "pending"]_vars

\* C3: a POST handled after expires_at is answered 410 (Expired) whatever the
\* form, and changes neither a stored request nor the upload folder.
C3_ExpiredPostRefused ==
    \A l \in LinkInputs, f \in FormInputs :
        (\E r \in requests : r.unique_link = l /\ r.expires_at < now)
        => LET done == handle_upload("POST", l, f)
           IN /\ done.response = UploadResponse("POST", 410, "none")
              /\ unchanged(done)

C3_Witness ==
    /\ response = UploadResponse("POST", 410, "none")
    /\ \E r \in requests : r.expires_at < now /\ r.status = "pending"

\* C4: issuing for a client without gdpr_consent fails for that client and
\* creates no FuelRequest and no SMSLog row for it; no existing row changes.
C4_NoConsentNoIssue ==
    \A sel \in SelectedInputs :
        LET done == handle_send(sel, NoFaults(sel))
        IN /\ requests \subseteq done.requests
           /\ sms_logs \subseteq done.sms_logs
           /\ \A c \in clients :
                 ~c.gdpr_consent =>
                   /\ \A r \in done.requests \ requests : r.client_id # c.id
                   /\ \A g \in done.sms_logs \ sms_logs : g.client_id # c.id
                   /\ done.response.failed_count >=
                         Cardinality({i \in 1..Len(sel) : sel[i] = c.id})

C4_Witness ==
    /\ response.op = "send_sms_requests"
    /\ \E c \in clients :
          /\ ~c.gdpr_consent
          /\ \E i \in 1..Len(response.selected) : response.selected[i] = c.id
          /\ \A r \in requests : r.client_id # c.id
          /\ \A g \in sms_logs : g.client_id # c.id
    /\ response.failed_count >= 1
    /\ response.sent_count >= 1

\* C5: every issued request has expires_at = created_at + 48 hours exactly,
\* and starts pending with documents_uploaded false.
C5_ExpiryIsCreationPlus48h ==
    \A r \in requests :
        /\ r.expires_at = r.created_at + EXPIRY_HOURS
        /\ (r.submission_timestamp = NullTime
               => r.status = "pending" /\ ~r.documents_uploaded)

valid_manual(f) ==
    /\ f.phone_type = "keypad"
    /\ ~blank(f.client_name) /\ ~blank(f.client_phone)
    /\ ~blank(f.meter_reading_text) /\ ~blank(f.id_type)
    /\ Len(strip(f.id_details)) >= MIN_ID_DETAILS
    /\ (f.cannot_upload_pictures = "on" => ~blank(f.missing_documents_reason))
    /\ (strip(f.id_type) = <<"o","t","h","e","r">> => ~blank(f.other_id_type))

valid_photo(f) ==
    /\ f.phone_type = "smartphone"
    /\ \A file \in {f.meter_reading, f.identity_photo} :
          file.present /\ file.filename # <<>> /\ allowed_file(file.filename)

\* C7: a valid submission on a pending, unexpired request stores together the
\* path's payload (the typed fields, or the two file references),
\* documents_uploaded, phone_type_used, submission_timestamp = now and
\* status completed.
C7_ValidSubmissionCommitsAll ==
    \A l \in LinkInputs, f \in FormInputs :
        (/\ open_link(l)
         /\ row(l).status = "pending"
         /\ valid_manual(f) \/ valid_photo(f))
        => LET done == handle_upload("POST", l, f)
               r == CHOOSE x \in done.requests : x.unique_link = l
           IN /\ r.documents_uploaded
              /\ r.phone_type_used = f.phone_type
              /\ r.submission_timestamp = utcnow
              /\ r.status = "completed"
              /\ valid_manual(f) =>
                    /\ r.meter_reading_text = strip(f.meter_reading_text)
                    /\ r.id_details = strip(f.id_details)
                    /\ r.client_postcode = strip(f.client_postcode)
                    /\ r.id_type # NullText
              /\ valid_photo(f) =>
                    /\ r.meter_reading_filename = meter_filename(r, f)
                    /\ r.identity_photo_filename = identity_filename(r, f)

\* C8: a keypad submission with a blank client name, phone, meter reading,
\* id type or id details is refused and changes nothing; a blank postcode
\* alone never causes a refusal.
C8_KeypadRequiredFields ==
    \A l \in LinkInputs, f \in FormInputs :
        (f.phone_type = "keypad" /\ open_link(l))
        => LET done == handle_upload("POST", l, f)
               missing == \/ blank(f.client_name) \/ blank(f.client_phone)
                          \/ blank(f.meter_reading_text) \/ blank(f.id_type)
                          \/ blank(f.id_details)
               no_reason == /\ f.cannot_upload_pictures = "on"
                            /\ blank(f.missing_documents_reason)
           IN /\ missing => rejected(done.response) /\ unchanged(done)
              /\ (~missing /\ ~no_reason /\ blank(f.client_postcode))
                    => accepted(done.response)

C8_Witness ==
    /\ response = UploadResponse("POST", 302, "required_fields")
    /\ \E r \in requests : r.status = "pending" /\ ~(r.expires_at < now)

\* C9: a keypad submission whose id_details is not blank but shorter than 10
\* characters is refused and changes nothing.
C9_ShortIdDetailsRefused ==
    \A l \in LinkInputs, f \in FormInputs :
        (/\ f.phone_type = "keypad"
         /\ open_link(l)
         /\ ~blank(f.id_details)
         /\ Len(strip(f.id_details)) < MIN_ID_DETAILS)
        => LET done == handle_upload("POST", l, f)
           IN rejected(done.response) /\ unchanged(done)

\* C10: a keypad submission with cannot_upload_pictures set and a blank reason
\* is refused and changes nothing; an accepted one with the flag set stores
\* the submitted (trimmed, non-empty) reason.
C10_ReasonMandatory ==
    \A l \in LinkInputs, f \in FormInputs :
        (/\ f.phone_type = "keypad"
         /\ f.cannot_upload_pictures = "on"
         /\ open_link(l))
        => LET done == handle_upload("POST", l, f)
               r == CHOOSE x \in done.requests : x.unique_link = l
           IN IF blank(f.missing_documents_reason)
              THEN rejected(done.response) /\ unchanged(done)
              ELSE accepted(done.response) =>
                     /\ r.missing_documents_reason # <<>>
                     /\ r.missing_documents_reason
                           = strip(f.missing_documents_reason)

C10_Witness ==
    /\ response = UploadResponse("POST", 302, "reason_required")
    /\ \E r \in requests :
          /\ r.phone_type_used = "keypad"
          /\ r.missing_documents_reason = <<"l","o","s","t">>

\* C11: a keypad submission with id type "other" and a blank free-text
\* sub-type is refused and changes nothing; no completed request stores the
\* bare id_type "other".
C11_OtherNeedsSubtype ==
    /\ \A l \in LinkInputs, f \in FormInputs :
          (/\ f.phone_type = "keypad"
           /\ open_link(l)
           /\ strip(f.id_type) = <<"o","t","h","e","r">>
           /\ blank(f.other_id_type))
          => LET done == handle_upload("POST", l, f)
             IN rejected(done.response) /\ unchanged(done)
    /\ \A r \in requests :
          r.status = "completed" => r.id_type # <<"o","t","h","e","r">>

\* The extension of a file name as the specification defines it: the text
\* after the last ".", compared without regard to case.
image_name(filename) ==
    \E i \in 1..Len(filename) :
        /\ filename[i] = "."
        /\ \A j \in (i + 1)..Len(filename) : filename[j] # "."
        /\ lower(SubSeq(filename, i + 1, Len(filename))) \in ALLOWED_EXTENSIONS

unusable(file) ==
    ~file.present \/ file.filename = <<>> \/ ~image_name(file.filename)

\* C12: a smartphone submission is refused, with no field of the request
\* changed and no file written, whenever one of the two files is absent, has
\* an empty name or an extension outside {png, jpg, jpeg, gif}; with both
\* files usable it is accepted and sets documents_uploaded.
C12_PhotoValidation ==
    \A l \in LinkInputs, f \in FormInputs :
        (f.phone_type = "smartphone" /\ open_link(l))
        => LET done == handle_upload("POST", l, f)
               r == CHOOSE x \in done.requests : x.unique_link = l
           IN IF unusable(f.meter_reading) \/ unusable(f.identity_photo)
              THEN rejected(done.response) /\ unchanged(done)
              ELSE accepted(done.response) /\ r.documents_uploaded

C12_Witness ==
    /\ response = UploadResponse("POST", 302, "image_only")
    /\ \E r \in requests :
          /\ r.status = "completed"
          /\ r.phone_type_used = "smartphone"
          /\ r.documents_uploaded

\* C13: after every accepted smartphone submission the stored request holds
\* both file references, the names under which the two images were saved.
C13_PhotoReferencesStored ==
    \A r \in requests :
        (r.status = "completed" /\ r.phone_type_used = "smartphone")
        => /\ r.meter_reading_filename \in uploads
           /\ r.identity_photo_filename \in uploads
           /\ r.meter_reading_filename # r.identity_photo_filename

\* The selected positions for which a request is created and the notifier
\* then reports failure.
failing(sel, faults) ==
    {i \in 1..Len(sel) :
        /\ faults[i] # "none"
        /\ \E c \in clients : c.id = sel[i] /\ c.gdpr_consent}

\* C14: when send_sms_to_client returns False for an issued request, the
\* request created for that client stays persisted, its link still resolves
\* and accepts a submission, and an SMSLog row of that attempt exists with
\* status failed and a non-empty error_message.
C14_FailedNotificationKeepsRequest ==
    /\ \A sel \in NotifySelected :
          \A faults \in FaultInputs(sel) :
            LET done == handle_send(sel, faults)
                failed == {g \in done.sms_logs \ sms_logs : g.status = "failed"}
            IN /\ Cardinality(failed) = Cardinality(failing(sel, faults))
               /\ done.response.failed_count >= Cardinality(failed)
               /\ \A g \in failed :
                     /\ g.error_message \notin {<<>>, NullText}
                     /\ \E r \in done.requests \ requests :
                           /\ r.id = g.fuel_request_id
                           /\ r.client_id = g.client_id
                           /\ r.status = "pending"
    /\ \A g \in sms_logs :
          g.status = "failed" =>
            \E r \in requests :
              /\ r.id = g.fuel_request_id
              /\ handle_upload("GET", r.unique_link, EmptyForm).response.status
                    = (IF r.expires_at < now THEN 410 ELSE 200)
              /\ ~(r.expires_at < now) =>
                    accepted(handle_upload("POST", r.unique_link,
                                           KeypadBase).response)

C14_Witness ==
    /\ response.op = "send_sms_requests"
    /\ response.failed_count >= 1
    /\ \E g \in sms_logs, r \in requests :
          /\ g.status = "failed"
          /\ g.error_message = ExceptionText
          /\ r.id = g.fuel_request_id
          /\ ~r.sms_sent
          /\ ~(r.expires_at < now)

\* C15: no two requests share a unique_link, and no operation changes the
\* unique_link or the expires_at of a request that exists.
C15_TokenUniqueImmutable ==
    [][/\ \A q1, q2 \in requests' :
             q1.unique_link = q2.unique_link => q1 = q2
       /\ \A r \in requests, q \in requests' :
             q.id = r.id => /\ q.unique_link = r.unique_link
                            /\ q.expires_at = r.expires_at]_vars

C15_Witness ==
    /\ response = Response("edit_client", "POST", 302, "updated")
    /\ Cardinality(requests) = 2
    /\ \E r \in requests : r.status = "completed"

\* C16: a request is expired at every time t >= expires_at: an access handled
\* at a time equal to expires_at gets the Expired answer, and a submission
\* at that instant is refused.
C16_ExpiredAtBoundary ==
    \A l \in LinkInputs, f \in FormInputs :
        (\E r \in requests : r.unique_link = l /\ now >= r.expires_at)
        => /\ handle_upload("GET", l, EmptyForm).response.status = 410
           /\ LET done == handle_upload("POST", l, f)
              IN done.response.status = 410 /\ unchanged(done)

\* C17: GET and POST evaluate the same expiry test, before any part of the
\* submitted form is read: at the same time and for the same link both are
\* answered Expired or neither is, whatever the form holds.
C17_SameExpiryTestFirst ==
    \A l \in LinkInputs, f \in FormInputs :
        LET read == handle_upload("GET", l, EmptyForm)
            write == handle_upload("POST", l, f)
        IN /\ (read.response.status = 410) <=> (write.response.status = 410)
           /\ (read.response.status = 404) <=> (write.response.status = 404)
           /\ l \in {r.unique_link : r \in requests} =>
                 ((read.response.status = 410) <=> is_expired(row(l)))

C17_Witness ==
    /\ response = UploadResponse("GET", 410, "none")
    /\ \E r \in requests : r.expires_at < now /\ r.status = "completed"

\* C18: no request is committed as completed at a time later than its
\* expires_at: a POST that passed the expiry test but whose commit comes
\* after the expiry does not complete the request.
C18_NoCommitAfterExpiry ==
    [][\A w \in Workers :
          upload_commit(w)
          => \A r \in requests :
                (r.id = sessions[w].id /\ r.expires_at < now)
                => \A q \in requests' : q.id = r.id => q = r]_vars

\* C19: when a file write fails during a submission, the submission fails
\* with nothing retained: no field of the stored request changes and no
\* file of that submission remains in the upload folder.
C19_FailedWriteLeavesNothing ==
    \A l \in LinkInputs, f \in ConcurrentForms :
        \A fault \in StorageFaults \ {"none"} :
            (/\ open_link(l)
             /\ row(l).status = "pending"
             /\ accepted(handle_upload("POST", l, f).response)
             /\ write_fails(f, fault))
            => LET done == handle_upload_fault("POST", l, f, fault)
               IN /\ ~accepted(done.response)
                  /\ done.requests = requests
                  /\ done.uploads = uploads

C21_RemovedOnlyWithClient ==
    [][\A r \in requests :
          (\A q \in requests' : q.id # r.id)
          => /\ response'.op = "delete_client"
             /\ \E c \in clients : c.id = r.client_id
             /\ \A c \in clients' : c.id # r.client_id]_vars

C21_Witness ==
    /\ response = Response("delete_client", "GET", 302, "deleted")
    /\ requests # {}
    /\ links_issued > Cardinality(requests)

\* C22: no two clients hold the same phone number, the stored numbers being
\* compared in the form format_phone_number gives them.
C22_UniquePhones ==
    \A c1 \in clients : \A c2 \in clients :
        c1.id # c2.id
        => format_phone_number(c1.phone_number)
              # format_phone_number(c2.phone_number)

\* Original names that look like the prefix of another request's file.
PhotoNames ==
    {<<"m",".","j","p","g">>, <<"2","_","m",".","j","p","g">>,
     <<"_",".","j","p","g">>}

photo_form(meter, identity) ==
    [SmartphoneBase EXCEPT !.meter_reading = File(meter),
                           !.identity_photo = File(identity)]

StoredForms ==
    {KeypadBase} \cup {photo_form(n, n) : n \in PhotoNames}

\* Every name under which a submission on the request may store a file.
stored_names(fuel_request) ==
    UNION {upload_files(fuel_request, f) : f \in StoredForms}

C24_DeleteClientRemovesAll ==
    [][response'.op = "delete_client" /\ response'.flash = "deleted"
       => \E gone \in clients :
             /\ clients' = clients \ {gone}
             /\ \A c \in clients' : c.id # gone.id
             /\ requests' = {r \in requests : r.client_id # gone.id}
             /\ sms_logs' = {g \in sms_logs : g.client_id # gone.id}
             /\ \A r \in requests :
                   r.client_id = gone.id
                   => \A m \in {"GET", "POST"} :
                         handle_upload(m, r.unique_link, KeypadBase)'
                            .response.status = 404]_vars

C24_Witness ==
    /\ response = Response("delete_client", "GET", 302, "deleted")
    /\ \E c \in clients :
          /\ \E r \in requests : r.client_id = c.id
          /\ \E g \in sms_logs : g.client_id = c.id
    /\ \E l \in 1..links_issued : \A r \in requests : r.unique_link # l

begins(text, prefix) ==
    Len(text) >= Len(prefix) /\ SubSeq(text, 1, Len(prefix)) = prefix

issuable(selected) ==
    {i \in 1..Len(selected) :
        \E c \in clients : c.id = selected[i] /\ c.gdpr_consent}

\* C25: in live mode, when the Twilio call raises for every selected
\* client, each send is recorded as a simulated success: the log is sent
\* with a sim_ sid and the failure text, the request is marked sms_sent, and
\* the issuer counts it as sent, not as failed.
C25_TwilioFailureFallsBack ==
    ~config.SIMULATION_MODE
    => \A sel \in NotifySelected :
          LET done == app_handle_send(sel,
                                      [i \in 1..Len(sel) |-> "raises"])
              new_logs == done.sms_logs \ sms_logs
              new_requests == done.requests \ requests
          IN /\ \A g \in new_logs :
                   /\ g.status = "sent"
                   /\ begins(g.twilio_sid, SimulatedSid)
                   /\ begins(g.error_message, TwilioFailed)
             /\ \A r \in new_requests :
                   /\ r.sms_sent
                   /\ begins(r.sms_sid, SimulatedSid)
                   /\ \E g \in new_logs : g.fuel_request_id = r.id
             /\ Cardinality(new_requests) = Cardinality(issuable(sel))
             /\ done.response.sent_count = Cardinality(issuable(sel))
             /\ done.response.failed_count
                    = Len(sel) - Cardinality(issuable(sel))

C25_Witness ==
    /\ ~config.SIMULATION_MODE
    /\ response.op = "send_sms_requests"
    /\ response.sent_count = 2
    /\ \A g \in sms_logs : begins(g.error_message, TwilioFailed)
    /\ sms_logs # {}

credentials_cleared ==
    /\ config.TWILIO_ACCOUNT_SID = NullStr
    /\ config.TWILIO_AUTH_TOKEN = NullStr
    /\ config.TWILIO_PHONE_NUMBER = NullStr

\* C26: once the credentials are cleared, as force_simulation_mode leaves
\* them, debug_sms_status reports twilio_configured false and no send calls
\* Twilio: each one takes the simulation branch.
C26_ForcedSimulation ==
    credentials_cleared
    => /\ ~twilio_configured
       /\ \A sel \in NotifySelected :
             \A outcomes \in OutcomeInputs(sel) :
                 LET done == app_handle_send(sel, outcomes)
                 IN /\ done.twilio_calls = 0
                    /\ \A g \in done.sms_logs \ sms_logs :
                          g.error_message = NullText

occurrences(selected, client_id) ==
    Cardinality({i \in 1..Len(selected) : selected[i] = client_id})

\* C27: a POST with a list of client ids creates one new request for each
\* listed id of an existing consenting client and none for any other id,
\* wherever in the list the ids that cannot be served stand, and the two
\* counters add up to the length of the list.
C27_EachSelectedIndependently ==
    \A sel \in SelectedInputs :
        LET done == handle_send(sel, NoFaults(sel))
            new_requests == done.requests \ requests
        IN /\ \A c \in clients :
                 Cardinality({r \in new_requests : r.client_id = c.id})
                    = (IF c.gdpr_consent THEN occurrences(sel, c.id) ELSE 0)
           /\ \A r \in new_requests : \E c \in clients : c.id = r.client_id
           /\ sel # <<>>
                 => done.response.sent_count + done.response.failed_count
                       = Len(sel)

C27_Witness ==
    /\ response.op = "send_sms_requests"
    /\ Len(response.selected) = 2
    /\ issuable(response.selected) = {2}
    /\ response.sent_count = 1
    /\ response.failed_count = 1
    /\ \E r \in requests : r.client_id = response.selected[2]

\* C28: in every stored state, a request has documents_uploaded set exactly
\* when its status is completed.
C28_UploadedIffCompleted ==
    \A r \in requests : r.documents_uploaded <=> (r.status = "completed")

C28_Witness ==
    /\ \E r \in requests :
          /\ r.documents_uploaded
          /\ r.status = "completed"
          /\ r.submission_timestamp > r.created_at

\* C29: a POST whose phone_type is missing or is neither keypad nor
\* smartphone stores nothing and writes no file, and neither does any GET.
C29_UnknownPhoneTypeAndGetInert ==
    \A l \in LinkInputs, f \in FormInputs \cup {EmptyForm} :
        /\ f.phone_type \notin {"keypad", "smartphone"}
              => unchanged(handle_upload("POST", l, f))
        /\ unchanged(handle_upload("GET", l, f))

C29_Witness ==
    /\ response = UploadResponse("POST", 200, "none")
    /\ \E r \in requests : r.status = "pending" /\ ~(r.expires_at < now)

\* C30: expiry is final: once an access to a link is answered Expired, every
\* access after the next step, GET or POST with any form, is answered
\* Expired as long as the request is stored.
C30_ExpiredStaysExpired ==
    [][\A l \in LinkInputs :
          handle_upload("GET", l, EmptyForm).response.status = 410
          => \A m \in {"GET", "POST"}, f \in FormInputs :
                LET later == handle_upload(m, l, f)'
                IN /\ later.response.status \in {404, 410}
                   /\ later.response.status = 404
                         => \A r \in requests' : r.unique_link # l]_vars

C30_Witness ==
    /\ response = UploadResponse("POST", 410, "none")
    /\ \E r \in requests : r.expires_at < now /\ r.status = "completed"

====
